---- MODULE Spec2Model ----
(***************************************************************************)
(* Model of scripts/generate_blog.py: save_blog_post, the post persister   *)
(* (archive write with collision resolution, front-matter extraction,      *)
(* slug derivation, publication copy into _posts).                         *)
(*                                                                         *)
(* Text is a sequence of one-character strings.  Files are functions from  *)
(* paths to text.  An archive path posts/YYYY/MM/DD/auto-HHMMSS[-n].md is  *)
(* the triple <<day, sec, n>> (n = 0: no disambiguator); a published path  *)
(* _posts/<date>-<slug>.md is the text of its file name.                   *)
(*                                                                         *)
(* A filesystem call that fails is taken to fail without effect.           *)
(***************************************************************************)
EXTENDS Integers, Sequences, FiniteSets, TLC

VARIABLES
  clock,      \* the wall clock, in seconds
  posts,      \* the files under posts/: archive path -> text
  jekyll,     \* the files under _posts/: file name -> text
  nruns,      \* the number of invocations of save_blog_post so far
  last,       \* what the most recent invocation did and returned
  created,    \* archive path -> the content of the run that returned it
  nreturned,  \* the number of invocations that returned a path
  publisher,  \* published file name -> archive path of the latest run that copied to it
  published,  \* the <<date, title>> pairs of the runs whose copy succeeded
  pc,         \* interleaved invocations: where each process is
  local,      \* interleaved invocations: each process's local variables
  lost,       \* interleaved invocations: the archive writes that replaced a file
  overlapped, \* interleaved invocations: two were in progress at once
  arg,        \* function under test: the input
  stage,      \* function under test: what has been applied
  out         \* function under test: the results

fsVars == <<posts, jekyll, nruns, last, created, nreturned, publisher, published>>
procVars == <<pc, local, lost, overlapped>>
pureVars == <<arg, stage, out>>
vars == <<clock, posts, jekyll, nruns, last, created, nreturned, publisher, published,
          pc, local, lost, overlapped, arg, stage, out>>

(***************************************************************************)
(* Bounds of the model.                                                    *)
(***************************************************************************)
MaxRuns == 3
MaxStarts == 2
MaxClock == 3
SecsPerDay == 2
MaxPieces == 3
MaxTitleLen == 4

(***************************************************************************)
(* Characters and the classes the regular expressions use.                 *)
(***************************************************************************)
UpperLetters == <<"A","B","C","D","E","F","G","H","I","J","K","L","M",
                  "N","O","P","Q","R","S","T","U","V","W","X","Y","Z">>
LowerLetters == <<"a","b","c","d","e","f","g","h","i","j","k","l","m",
                  "n","o","p","q","r","s","t","u","v","w","x","y","z">>
Digits == {"0","1","2","3","4","5","6","7","8","9"}
Quotes == {"\"", "'"}

Range(s) == {s[i] : i \in 1..Len(s)}

\* \s
IsSpace(c) == c \in {" ", "\t", "\n", "\r"}
\* \d
IsDigit(c) == c \in Digits
\* \w
IsWord(c) == c \in Range(UpperLetters) \cup Range(LowerLetters) \cup Digits \cup {"_"}

\* str.lower() on one character
LowerOf(c) ==
  IF \E i \in 1..26 : UpperLetters[i] = c
    THEN LowerLetters[CHOOSE i \in 1..26 : UpperLetters[i] = c]
    ELSE c

NoMatch == <<>>

(***************************************************************************)
(* Regular-expression matching, re.MULTILINE.                              *)
(***************************************************************************)
\* ^ at position i (before character i)
LineStart(text, i) == i = 1 \/ text[i - 1] = "\n"
\* $ at position i (before character i)
LineEnd(text, i) == i = Len(text) + 1 \/ text[i] = "\n"

HasLiteral(text, i, lit) ==
  /\ i + Len(lit) - 1 <= Len(text)
  /\ SubSeq(text, i, i + Len(lit) - 1) = lit

\* the length of the longest run of \s starting at position i
SpaceRun(text, i) ==
  CHOOSE k \in 0..(Len(text) + 1 - i) :
    /\ \A j \in i..(i + k - 1) : IsSpace(text[j])
    /\ (i + k <= Len(text) => ~IsSpace(text[i + k]))

DateKey == <<"d","a","t","e",":">>
TitleKey == <<"t","i","t","l","e",":">>

\* \d{4}-\d{2}-\d{2} at position q
DateShapeAt(text, q) ==
  /\ q + 9 <= Len(text)
  /\ \A j \in {0, 1, 2, 3, 5, 6, 8, 9} : IsDigit(text[q + j])
  /\ text[q + 4] = "-"
  /\ text[q + 7] = "-"

\* where group 1 of ^date:\s*(\d{4}-\d{2}-\d{2}) starts when the match starts at i
\* (0: no match at i).  \s* is greedy; a shorter run cannot help, since the next
\* character must then be a digit.
DateGroupAt(text, i) ==
  IF LineStart(text, i) /\ HasLiteral(text, i, DateKey)
    THEN LET q == i + 5 + SpaceRun(text, i + 5)
         IN IF DateShapeAt(text, q) THEN q ELSE 0
    ELSE 0

\* re.search: the leftmost position with a match
DateMatchStart(text) ==
  IF \E i \in 1..Len(text) : DateGroupAt(text, i) # 0
    THEN CHOOSE i \in 1..Len(text) :
           /\ DateGroupAt(text, i) # 0
           /\ \A j \in 1..(i - 1) : DateGroupAt(text, j) = 0
    ELSE 0

\* date_match.group(1), or NoMatch when date_match is None
DateMatch(text) ==
  LET i == DateMatchStart(text)
  IN IF i = 0 THEN NoMatch
     ELSE SubSeq(text, DateGroupAt(text, i), DateGroupAt(text, i) + 9)

\* ["\']?\s*$ after the group, which ends before position e
TitleTailOk(text, e) ==
  \E c \in {0, 1} :
    /\ c = 1 => (e <= Len(text) /\ text[e] \in Quotes)
    /\ \E j \in 0..SpaceRun(text, e + c) : LineEnd(text, e + c + j)

\* the attempts of ^title:\s*["\']?(.+?)["\']?\s*$ from position i that succeed,
\* as <<k, o, m>>: k characters taken by \s*, o by the opening ["\']?, m by (.+?)
TitleAttempts(text, i) ==
  IF LineStart(text, i) /\ HasLiteral(text, i, TitleKey)
    THEN {a \in (0..SpaceRun(text, i + 6)) \X {0, 1} \X (1..Len(text)) :
            LET g == i + 6 + a[1] + a[2]
                e == g + a[3]
            IN /\ a[2] = 1 => (g - 1 <= Len(text) /\ text[g - 1] \in Quotes)
               /\ e - 1 <= Len(text)
               /\ \A j \in g..(e - 1) : text[j] # "\n"
               /\ TitleTailOk(text, e)}
    ELSE {}

\* the attempt the backtracking matcher finds first: \s* greedy, ["\']? greedy,
\* (.+?) lazy
FirstAttempt(as) ==
  CHOOSE a \in as :
    \A b \in as :
      \/ a[1] > b[1]
      \/ a[1] = b[1] /\ a[2] > b[2]
      \/ a[1] = b[1] /\ a[2] = b[2] /\ a[3] <= b[3]

TitleMatchStart(text) ==
  IF \E i \in 1..Len(text) : TitleAttempts(text, i) # {}
    THEN CHOOSE i \in 1..Len(text) :
           /\ TitleAttempts(text, i) # {}
           /\ \A j \in 1..(i - 1) : TitleAttempts(text, j) = {}
    ELSE 0

\* where group 1 of the title match starts (0 when title_match is None)
TitleGroupStart(text) ==
  LET i == TitleMatchStart(text)
  IN IF i = 0 THEN 0
     ELSE LET a == FirstAttempt(TitleAttempts(text, i)) IN i + 6 + a[1] + a[2]

\* title_match.group(1), or NoMatch when title_match is None
TitleMatch(text) ==
  LET i == TitleMatchStart(text)
  IN IF i = 0 THEN NoMatch
     ELSE LET a == FirstAttempt(TitleAttempts(text, i))
              g == i + 6 + a[1] + a[2]
          IN SubSeq(text, g, g + a[3] - 1)

(***************************************************************************)
(* Slug derivation.                                                        *)
(***************************************************************************)
Lower(s) == [i \in 1..Len(s) |-> LowerOf(s[i])]

KeepChar(c) == IsWord(c) \/ IsSpace(c) \/ c = "-"
\* re.sub(r'[^\w\s-]', '', slug)
RemoveSpecial(s) == SelectSeq(s, KeepChar)

NotDropped(c) == c # ""
IsSep(c) == IsSpace(c) \/ c = "_"
\* re.sub(r'[\s_]+', '-', slug)
ReplaceSpaces(s) ==
  SelectSeq([i \in 1..Len(s) |->
               IF IsSep(s[i])
                 THEN (IF i > 1 /\ IsSep(s[i - 1]) THEN "" ELSE "-")
                 ELSE s[i]],
            NotDropped)

\* faulty variant: runs of hyphens are left as they are
CollapseNothing(s) == s

\* re.sub(r'-+', '-', slug)
CollapseHyphens(s) ==
  SelectSeq([i \in 1..Len(s) |->
               IF s[i] = "-" /\ i > 1 /\ s[i - 1] = "-" THEN "" ELSE s[i]],
            NotDropped)

\* slug.strip('-')
StripHyphens(s) ==
  IF \A i \in 1..Len(s) : s[i] = "-"
    THEN <<>>
    ELSE LET a == CHOOSE i \in 1..Len(s) :
                    s[i] # "-" /\ \A j \in 1..(i - 1) : s[j] = "-"
             b == CHOOSE i \in 1..Len(s) :
                    s[i] # "-" /\ \A j \in (i + 1)..Len(s) : s[j] = "-"
         IN SubSeq(s, a, b)

Slug(title) ==
  StripHyphens(CollapseHyphens(ReplaceSpaces(RemoveSpecial(Lower(title)))))

\* faulty variant: the file name leaves the date out
JekyllFilenameNoDate(post_date, slug) == slug \o <<".", "m", "d">>

\* f"{post_date}-{slug}.md"
JekyllFilename(post_date, slug) == post_date \o <<"-">> \o slug \o <<".", "m", "d">>

(***************************************************************************)
(* The archive path.                                                       *)
(***************************************************************************)
\* posts/YYYY/MM/DD of now (a day of the model has SecsPerDay seconds)
PostsDir(now) == (now - 1) \div SecsPerDay + 1
\* now.strftime("%H%M%S")
TimeStr(now) == ((now - 1) % SecsPerDay) + 1

\* posts_dir / f"auto-{time_str}.md" (counter = 0) and
\* posts_dir / f"auto-{time_str}-{counter}.md"
Candidate(posts_dir, time_str, counter) == <<posts_dir, time_str, counter>>

\* faulty variant: the existence check always answers no
ExistsNever(files, file_path) == FALSE

\* file_path.exists()
Exists(files, file_path) == file_path \in DOMAIN files

\* faulty variant: the counter skips a number
NextCounterSkips(counter) == counter + 2

\* counter += 1
NextCounter(counter) == counter + 1

\* while file_path.exists(): ...
RECURSIVE Probe(_, _, _, _, _)
Probe(files, posts_dir, time_str, file_path, counter) ==
  IF Exists(files, file_path)
    THEN Probe(files, posts_dir, time_str,
               Candidate(posts_dir, time_str, counter), NextCounter(counter))
    ELSE file_path

\* the path the collision loop ends with
ResolvePath(files, now) ==
  Probe(files, PostsDir(now), TimeStr(now),
        Candidate(PostsDir(now), TimeStr(now), 0), 1)

\* the file f at path p added to files, replacing what was there
Put(files, p, f) ==
  [q \in DOMAIN files \cup {p} |-> IF q = p THEN f ELSE files[q]]

\* with open(file_path, 'w', encoding='utf-8') as f: f.write(content)
WriteFile(files, file_path, content) == Put(files, file_path, content)

Nil == <<>>

(***************************************************************************)
(* The contents the runs are given, and the files found at the start.      *)
(***************************************************************************)
NL == <<"\n">>
Date0305 == <<"2","0","2","4","-","0","3","-","0","5">>
Date0306 == <<"2","0","2","4","-","0","3","-","0","6">>
\* title: "A b" / date: 2024-03-05
PostQuoted == TitleKey \o <<" ", "\"", "A", " ", "b", "\"">> \o NL \o DateKey \o <<" ">> \o Date0305 \o NL
\* title: a B! / date: 2024-03-05
PostBang == TitleKey \o <<" ", "a", " ", "B", "!">> \o NL \o DateKey \o <<" ">> \o Date0305 \o NL
\* date: 2024-03-06 / title: A b
PostLater == DateKey \o <<" ">> \o Date0306 \o NL \o TitleKey \o <<" ", "A", " ", "b">> \o NL
\* title: C                                (no date: line)
PostNoDate == TitleKey \o <<" ", "C">> \o NL
\* date: 2024-03-05                        (no title: line)
PostNoTitle == DateKey \o <<" ">> \o Date0305 \o NL

Contents == {PostQuoted, PostBang, PostLater, PostNoDate, PostNoTitle}

(***************************************************************************)
(* The publication step.                                                   *)
(***************************************************************************)
\* date_match and title_match of each content (group 1, or NoMatch for None)
FrontMatter ==
  [content \in Contents |-> [date |-> DateMatch(content), title |-> TitleMatch(content)]]

\* faulty variant: the title alone decides
PublishOnTitle(content) == FrontMatter[content].title # NoMatch

\* if date_match and title_match:
ShouldPublish(content) ==
  FrontMatter[content].date # NoMatch /\ FrontMatter[content].title # NoMatch

\* the slug of each title found
Slugs == [post_title \in {FrontMatter[content].title : content \in Contents} |-> Slug(post_title)]

\* jekyll_posts_dir / jekyll_filename of each content
JekyllPaths ==
  [content \in Contents |->
     JekyllFilename(FrontMatter[content].date, Slugs[FrontMatter[content].title])]

\* faulty variant: the copy leaves an existing file alone
Copy2KeepExisting(files, dir, file_path, jekyll_file_path) ==
  IF jekyll_file_path \in DOMAIN dir
    THEN dir
    ELSE [q \in DOMAIN dir \cup {jekyll_file_path} |->
            IF q = jekyll_file_path THEN files[file_path] ELSE dir[q]]

\* shutil.copy2(file_path, jekyll_file_path)
Copy2(files, dir, file_path, jekyll_file_path) ==
  Put(dir, jekyll_file_path, files[file_path])

\* the calls that can fail: the two of the critical path, the two of the try block
CriticalFaults == {"mkdir", "write"}
PublicationFaults == {"jekyll_mkdir", "copy2"}
Faults == {"none"} \cup CriticalFaults \cup PublicationFaults

\* faulty variant: nothing is caught
CaughtNothing(fault) == FALSE

\* try: ... except Exception as e: the failures that do not leave save_blog_post
Caught(fault) == fault \in PublicationFaults

\* print(f"Warning: Could not copy to _posts directory: {e}")
Warned(content, fault) == ShouldPublish(content) /\ fault \in PublicationFaults

\* a post found at the start, at a disambiguated name whose plain name is free
Manual == <<"#">>
StartFiles == {Candidate(1, 1, 1)}

EmptyFiles == [p \in {} |-> Nil]

NoRun ==
  [fault |-> "none", raised |-> FALSE, result |-> Nil,
   copied |-> Nil, warned |-> FALSE, before |-> {}, jekyllBefore |-> EmptyFiles]

Procs == {1, 2}

(***************************************************************************)
(* Sequential invocations.                                                 *)
(***************************************************************************)
InitFiles ==
  /\ clock = 1
  /\ \E S \in SUBSET StartFiles : posts = [p \in S |-> Manual]
  /\ jekyll = EmptyFiles
  /\ nruns = 0
  /\ last = NoRun
  /\ created = EmptyFiles
  /\ nreturned = 0
  /\ publisher = EmptyFiles
  /\ published = {}

InitProcs ==
  /\ pc = [p \in Procs |-> "idle"]
  /\ local = [p \in Procs |-> Nil]
  /\ lost = {}
  /\ overlapped = FALSE

InitPure ==
  /\ arg = Nil
  /\ stage = "off"
  /\ out = Nil

Init == InitFiles /\ InitProcs /\ InitPure

\* the wall clock advances
Tick ==
  /\ clock < MaxClock
  /\ clock' = clock + 1
  /\ UNCHANGED <<fsVars, procVars, pureVars>>

\* save_blog_post(content), with the call named by fault failing
SaveBlogPost(content, fault) ==
  /\ nruns < MaxRuns
  /\ fault \in PublicationFaults => ShouldPublish(content)
  /\ nruns' = nruns + 1
  /\ LET file_path == ResolvePath(posts, clock)
         written == WriteFile(posts, file_path, content)
         copies == ShouldPublish(content) /\ fault = "none"
         jekyll_file_path == JekyllPaths[content]
     IN IF fault \in CriticalFaults \/ (fault # "none" /\ ~Caught(fault))
          THEN /\ posts' = IF fault \in CriticalFaults THEN posts ELSE written
               /\ last' = [fault |-> fault, raised |-> TRUE,
                           result |-> Nil, copied |-> Nil, warned |-> FALSE,
                           before |-> DOMAIN posts, jekyllBefore |-> jekyll]
               /\ UNCHANGED <<jekyll, created, nreturned, publisher, published>>
          ELSE /\ posts' = written
               /\ jekyll' = IF copies
                              THEN Copy2(written, jekyll, file_path, jekyll_file_path)
                              ELSE jekyll
               /\ last' = [fault |-> fault, raised |-> FALSE,
                           result |-> file_path,
                           copied |-> IF copies THEN jekyll_file_path ELSE Nil,
                           warned |-> Warned(content, fault),
                           before |-> DOMAIN posts, jekyllBefore |-> jekyll]
               /\ created' = Put(created, file_path, content)
               /\ nreturned' = nreturned + 1
               /\ publisher' = IF copies
                                 THEN Put(publisher, jekyll_file_path, file_path)
                                 ELSE publisher
               /\ published' = IF copies
                                 THEN published \cup {<<FrontMatter[content].date, FrontMatter[content].title>>}
                                 ELSE published
  /\ UNCHANGED <<clock, procVars, pureVars>>

Next ==
  \/ Tick
  \/ \E content \in Contents, fault \in Faults : SaveBlogPost(content, fault)

Spec == Init /\ [][Next]_vars

(***************************************************************************)
(* Properties of sequential invocations.                                   *)
(***************************************************************************)
Ran == nruns > 0
Returned == Ran /\ ~last.raised
\* the content the most recent run was given (when it returned)
LastContent == created[last.result]
HasBoth(content) ==
  FrontMatter[content].date # NoMatch /\ FrontMatter[content].title # NoMatch

\* C1: archive entries are write-once.  Every run that returns wrote to a path at
\* which no file existed, the returned paths are pairwise distinct, every archive
\* file still holds the content of the run that created it, and the files found
\* at the start are as they were.
C1_ArchiveWriteOnce ==
  /\ Returned => last.result \notin last.before
  /\ Cardinality(DOMAIN created) = nreturned
  /\ \A p \in DOMAIN created : p \in DOMAIN posts /\ posts[p] = created[p]
  /\ \A p \in DOMAIN posts \ DOMAIN created : p \in StartFiles /\ posts[p] = Manual

\* three runs in one second, beside a file found at the start, two of them with
\* the same content
C1_Witness ==
  /\ DOMAIN posts \ DOMAIN created # {}
  /\ \E p, q, r \in DOMAIN created :
       /\ p[1] = q[1] /\ p[2] = q[2] /\ q[1] = r[1] /\ q[2] = r[2]
       /\ p[3] < q[3] /\ q[3] < r[3]
       /\ created[p] = created[r]

\* C2: collision resolution picks the least free slot: the path returned is
\* auto-HHMMSS.md when that was free, and otherwise auto-HHMMSS-n.md for the least
\* n >= 1 that was free; no slot below the chosen one was free.
C2_LeastFreeSlot ==
  Returned =>
    /\ last.result \notin last.before
    /\ \A m \in 0..(last.result[3] - 1) :
         Candidate(last.result[1], last.result[2], m) \in last.before

\* a run that found auto-HHMMSS.md and auto-HHMMSS-1.md taken and took -2
C2_Witness == Returned /\ last.result[3] = 2

\* C3: save_blog_post raises exactly when a call of the critical path fails; a
\* failure in the publication step does not raise: the run returns the archive
\* path and the archive file it wrote is in place with the run's content.
C3_OnlyCriticalRaises ==
  Ran =>
    /\ last.raised <=> last.fault \in CriticalFaults
    /\ last.fault \in PublicationFaults =>
         /\ last.result \in DOMAIN posts \ last.before
         /\ posts[last.result] = created[last.result]
    /\ last.raised => DOMAIN posts = last.before /\ jekyll = last.jekyllBefore

\* a run whose copy failed and which returned
C3_Witness == Ran /\ last.fault = "copy2" /\ ~last.raised /\ last.result \in DOMAIN posts

\* C4: a run creates or writes a file under _posts only if both a date and a title
\* were extracted from its content; with either absent the run writes the archive
\* entry, leaves _posts as it was and returns the archive path.
C4_PublishNeedsBoth ==
  Ran =>
    /\ jekyll # last.jekyllBefore => Returned /\ HasBoth(LastContent)
    /\ last.copied # Nil => Returned /\ HasBoth(LastContent)
    /\ (Returned /\ ~HasBoth(LastContent)) =>
         /\ jekyll = last.jekyllBefore
         /\ last.result \in DOMAIN posts \ last.before
         /\ posts[last.result] = LastContent

\* a run on content with no date: line, with a file already under _posts
C4_Witness ==
  /\ Returned
  /\ FrontMatter[LastContent].date = NoMatch
  /\ FrontMatter[LastContent].title # NoMatch
  /\ DOMAIN jekyll # {}

\* C5: every file under _posts is identical to the archive entry of the most
\* recent run that copied to that path; runs with identical content leave
\* distinct archive files and one published file, which holds that content.
C5_PublishedEqualsArchive ==
  /\ DOMAIN jekyll = DOMAIN publisher
  /\ \A f \in DOMAIN jekyll :
       /\ publisher[f] \in DOMAIN posts
       /\ jekyll[f] = posts[publisher[f]]
       /\ jekyll[f] = created[publisher[f]]
  /\ \A f, g \in DOMAIN jekyll : jekyll[f] = jekyll[g] => f = g

\* the second of two runs with identical content has replaced the copy the first
\* made: two archive files, one published file
C5_Witness ==
  /\ Returned
  /\ last.copied # Nil
  /\ last.copied \in DOMAIN last.jekyllBefore
  /\ last.jekyllBefore[last.copied] = LastContent
  /\ Cardinality(DOMAIN jekyll) = 1
  /\ \E p \in DOMAIN created : p # last.result /\ created[p] = LastContent

\* C6 (as claimed): a run that returns without having made a published copy has
\* emitted a warning.
C6_WarningWheneverNotPublished ==
  (Returned /\ last.copied = Nil) => last.warned

\* C7 (as claimed): the number of files under _posts is the number of distinct
\* (date, title) pairs among the runs that published.
C7_KeyedByDateAndTitle ==
  Cardinality(DOMAIN jekyll) = Cardinality(published)

\* C7 (amended): the number of files under _posts is the number of distinct
\* (date, slug of the title) pairs among the runs that published, and each such
\* pair has its file.
C7_KeyedByDateAndSlug ==
  /\ Cardinality(DOMAIN jekyll) = Cardinality({<<k[1], Slugs[k[2]]>> : k \in published})
  /\ \A k \in published : k[1] \o <<"-">> \o Slugs[k[2]] \o <<".", "m", "d">> \in DOMAIN jekyll

\* two published titles with one slug on one date, and the same title on another date
C7_Witness ==
  /\ \E k, l \in published : k[1] = l[1] /\ k[2] # l[2] /\ Slugs[k[2]] = Slugs[l[2]]
  /\ \E k, l \in published : k[1] # l[1] /\ k[2] = l[2]
  /\ Cardinality(DOMAIN jekyll) = 2

(***************************************************************************)
(* Interleaved invocations: two processes run save_blog_post, each call of *)
(* the filesystem one step.                                                *)
(***************************************************************************)
Others(p) == Procs \ {p}

\* the contents the interleaved runs are given: one that is published, one that is not
RaceContents == {PostQuoted, PostNoDate}

\* now = datetime.now(); posts_dir.mkdir(...); file_path = posts_dir / filename;
\* counter = 1
Start(p, content, fault) ==
  /\ pc[p] = "idle"
  /\ nruns < MaxStarts
  /\ fault \in PublicationFaults => ShouldPublish(content)
  /\ nruns' = nruns + 1
  /\ overlapped' = (overlapped \/ \E q \in Others(p) : pc[q] # "idle")
  /\ IF fault = "mkdir"
       THEN UNCHANGED <<pc, local>>
       ELSE /\ pc' = [pc EXCEPT ![p] = "check"]
            /\ local' = [local EXCEPT ![p] =
                           [content |-> content, fault |-> fault, now |-> clock,
                            file_path |-> Candidate(PostsDir(clock), TimeStr(clock), 0),
                            counter |-> 1]]
  /\ UNCHANGED <<clock, posts, jekyll, last, created, nreturned, publisher, published,
                 lost, pureVars>>

\* one evaluation of the loop condition, and the loop body when it holds
CheckExists(p) ==
  /\ pc[p] = "check"
  /\ IF Exists(posts, local[p].file_path)
       THEN /\ local' = [local EXCEPT ![p] =
                           [content |-> local[p].content, fault |-> local[p].fault,
                            now |-> local[p].now,
                            file_path |-> Candidate(PostsDir(local[p].now),
                                                    TimeStr(local[p].now),
                                                    local[p].counter),
                            counter |-> NextCounter(local[p].counter)]]
            /\ pc' = pc
       ELSE /\ pc' = [pc EXCEPT ![p] = "write"]
            /\ local' = local
  /\ UNCHANGED <<clock, fsVars, lost, overlapped, pureVars>>

\* the write of the archive file
WriteArchive(p) ==
  /\ pc[p] = "write"
  /\ IF local[p].fault = "write"
       THEN /\ pc' = [pc EXCEPT ![p] = "idle"]
            /\ local' = [local EXCEPT ![p] = Nil]
            /\ UNCHANGED <<posts, lost>>
       ELSE /\ posts' = WriteFile(posts, local[p].file_path, local[p].content)
            /\ lost' = IF local[p].file_path \in DOMAIN posts
                         THEN lost \cup {[path |-> local[p].file_path,
                                          was |-> posts[local[p].file_path],
                                          now |-> local[p].content]}
                         ELSE lost
            /\ pc' = [pc EXCEPT ![p] = "publish"]
            /\ local' = local
  /\ UNCHANGED <<clock, jekyll, nruns, last, created, nreturned, publisher, published,
                 overlapped, pureVars>>

\* the try block, and the return
Publish(p) ==
  /\ pc[p] = "publish"
  /\ jekyll' = IF ShouldPublish(local[p].content) /\ local[p].fault = "none"
                 THEN Copy2(posts, jekyll, local[p].file_path, JekyllPaths[local[p].content])
                 ELSE jekyll
  /\ pc' = [pc EXCEPT ![p] = "idle"]
  /\ local' = [local EXCEPT ![p] = Nil]
  /\ UNCHANGED <<clock, posts, nruns, last, created, nreturned, publisher, published,
                 lost, overlapped, pureVars>>

NextRace ==
  \/ Tick
  \/ \E p \in Procs, content \in RaceContents, fault \in Faults : Start(p, content, fault)
  \/ \E p \in Procs : CheckExists(p)
  \/ \E p \in Procs : WriteArchive(p)
  \/ \E p \in Procs : Publish(p)

SpecRace == Init /\ [][NextRace]_vars

\* C10: an archive write replaces an existing file only when two invocations were
\* in progress at once; when each run completes before the next starts no archive
\* file is ever replaced.  (That the replacement is reachable is C10_Witness.)
C10_OverwriteNeedsInterleaving == lost # {} => overlapped

\* two interleaved runs resolved the same path and the later write replaced the
\* earlier run's different content
C10_Witness ==
  /\ overlapped
  /\ \E l \in lost : l.was # l.now /\ l.was \in Contents /\ posts[l.path] = l.now

(***************************************************************************)
(* Front-matter extraction on its own: the two re.search calls, then the   *)
(* published file name, applied to texts built from a few pieces.          *)
(***************************************************************************)
Pieces == {TitleKey, DateKey, <<" ">>, NL, <<"\"">>, <<"'">>, <<"A", "b">>, Date0305}

RECURSIVE Concat(_)
Concat(ps) == IF ps = <<>> THEN <<>> ELSE Head(ps) \o Concat(Tail(ps))

\* title: "Intro to CI/CD" / date: 2024-03-05 10:00:00 +0000
ExampleText ==
  TitleKey \o <<" ", "\"", "I","n","t","r","o"," ","t","o"," ","C","I","/","C","D", "\"">>
    \o NL \o DateKey \o <<" ">> \o Date0305
    \o <<" ","1","0",":","0","0",":","0","0"," ","+","0","0","0","0">> \o NL
ExampleTitle == <<"I","n","t","r","o"," ","t","o"," ","C","I","/","C","D">>
\* 2024-03-05-intro-to-cicd.md
ExampleName ==
  Date0305 \o <<"-","i","n","t","r","o","-","t","o","-","c","i","c","d",".","m","d">>

Texts ==
  {Concat(ps) : ps \in UNION {[1..n -> Pieces] : n \in 0..MaxPieces}} \cup {ExampleText}

InitFrontMatter ==
  /\ clock = 1
  /\ posts = EmptyFiles
  /\ jekyll = EmptyFiles
  /\ nruns = 0
  /\ last = NoRun
  /\ created = EmptyFiles
  /\ nreturned = 0
  /\ publisher = EmptyFiles
  /\ published = {}
  /\ InitProcs
  /\ arg \in Texts
  /\ stage = "input"
  /\ out = Nil

\* date_match = re.search(...); title_match = re.search(...)
ExtractFrontMatter ==
  /\ stage = "input"
  /\ stage' = "extracted"
  /\ out' = [date |-> DateMatch(arg), title |-> TitleMatch(arg), name |-> Nil]
  /\ UNCHANGED <<clock, fsVars, procVars, arg>>

\* post_date, post_title, slug, jekyll_filename when both matched
NamePublished ==
  /\ stage = "extracted"
  /\ out.date # NoMatch /\ out.title # NoMatch
  /\ stage' = "named"
  /\ out' = [out EXCEPT !.name = JekyllFilename(out.date, Slug(out.title))]
  /\ UNCHANGED <<clock, fsVars, procVars, arg>>

NextFrontMatter == ExtractFrontMatter \/ NamePublished

SpecFrontMatter == InitFrontMatter /\ [][NextFrontMatter]_vars

\* positions i (where a match starts) and g (where its group starts) are on one line
OnOneLine(text, i, g) == \A j \in i..(g - 1) : text[j] # "\n"

\* some line of text starts with key
HasKeyLine(text, key) ==
  \E i \in 1..Len(text) : LineStart(text, i) /\ HasLiteral(text, i, key)

\* C8 (as claimed): extraction is line-based.  A token comes from the line its key
\* is on (a title: or date: line with an empty value takes nothing from the line
\* after it), a token is absent when no line starts with its key, and the example
\* content gives title Intro to CI/CD, date 2024-03-05 and the name
\* 2024-03-05-intro-to-cicd.md.
C8_LineBasedExtraction ==
  stage \in {"extracted", "named"} =>
    /\ out.title # NoMatch => OnOneLine(arg, TitleMatchStart(arg), TitleGroupStart(arg))
    /\ out.date # NoMatch =>
         OnOneLine(arg, DateMatchStart(arg), DateGroupAt(arg, DateMatchStart(arg)))
    /\ ~HasKeyLine(arg, TitleKey) => out.title = NoMatch
    /\ ~HasKeyLine(arg, DateKey) => out.date = NoMatch
    /\ arg = ExampleText => out.title = ExampleTitle /\ out.date = Date0305
    /\ (arg = ExampleText /\ stage = "named") => out.name = ExampleName

(***************************************************************************)
(* Slug derivation on its own, applied once and then to its own result.    *)
(***************************************************************************)
TitleChars == {"A", "b", "1", " ", "_", "-", "!"}
Titles == UNION {[1..n -> TitleChars] : n \in 0..MaxTitleLen}

InitSlug ==
  /\ clock = 1
  /\ posts = EmptyFiles
  /\ jekyll = EmptyFiles
  /\ nruns = 0
  /\ last = NoRun
  /\ created = EmptyFiles
  /\ nreturned = 0
  /\ publisher = EmptyFiles
  /\ published = {}
  /\ InitProcs
  /\ arg \in Titles
  /\ stage = "input"
  /\ out = Nil

SlugOnce ==
  /\ stage = "input"
  /\ stage' = "once"
  /\ out' = [once |-> Slug(arg), twice |-> Nil]
  /\ UNCHANGED <<clock, fsVars, procVars, arg>>

SlugTwice ==
  /\ stage = "once"
  /\ stage' = "twice"
  /\ out' = [out EXCEPT !.twice = Slug(out.once)]
  /\ UNCHANGED <<clock, fsVars, procVars, arg>>

NextSlug == SlugOnce \/ SlugTwice

SpecSlug == InitSlug /\ [][NextSlug]_vars

\* no whitespace, no underscore, no two adjacent hyphens, no hyphen at either end
SlugShaped(s) ==
  /\ \A i \in 1..Len(s) : ~IsSpace(s[i]) /\ s[i] # "_"
  /\ \A i \in 1..(Len(s) - 1) : ~(s[i] = "-" /\ s[i + 1] = "-")
  /\ s # <<>> => s[1] # "-" /\ s[Len(s)] # "-"

\* every character is one the second step removes
OnlyStripped(s) ==
  \A i \in 1..Len(s) : ~IsWord(s[i]) /\ ~IsSpace(s[i]) /\ s[i] # "-"

\* C9: slug derivation is idempotent, its result has no whitespace, no underscore,
\* no two adjacent hyphens and no hyphen at either end, and a title made only of
\* stripped characters gives the empty string.
C9_SlugIdempotent ==
  /\ stage \in {"once", "twice"} =>
       /\ SlugShaped(out.once)
       /\ OnlyStripped(arg) => out.once = <<>>
  /\ stage = "twice" => out.twice = out.once

\* a title with an upper-case letter, a separator, a hyphen and a stripped
\* character, slugged twice
C9_Witness ==
  /\ stage = "twice"
  /\ {"A", " ", "!", "-"} \subseteq Range(arg)
  /\ out.once # <<>>
  /\ out.once # arg

====
